---- MODULE Spec2Model ----
(***************************************************************************)
(* The pipeline graph of the Mammoth recommender designer: the component   *)
(* catalog and its connection validator, the graph store kept in the       *)
(* RecommenderDesigner component state, the connect gesture of a canvas    *)
(* component, the workflow-template loader and the JSON persistence        *)
(* (auto-save in localStorage, save to / load from a file).                *)
(***************************************************************************)
EXTENDS Integers, Sequences, FiniteSets, TLC

(***************************************************************************)
(* Bounds of the model.                                                    *)
(***************************************************************************)
\* Highest value either ID counter may reach in the editing-session model.
MaxCounter == 2
\* Most nodes the editing-session model puts on the canvas by palette drops.
MaxNodes == 3
\* Most edges the connect gesture lets the edge list grow to.
MaxEdges == 2
\* Longest workflow template the editing-session model expands.
MaxBlocks == 2
\* Longest workflow template the loader model expands.
MaxLoaderBlocks == 5
\* Highest value the loader's ID counter may reach while the example workflows
\* are loaded one after the other.
MaxExampleCounter == 32
\* Steps of 100 the lattice of connection end positions extends to.
MaxLatticeSteps == 3

(***************************************************************************)
(* JavaScript values.                                                      *)
(***************************************************************************)
\* The null of a useState<string | null>.
Null == "null"

\* A component whose optional config field is undefined.
NoConfig == [defined |-> FALSE, n_factors |-> "undefined"]

(***************************************************************************)
(* simplifiedComponents.ts: the catalog.                                   *)
(***************************************************************************)
SIMPLIFIED_COMPONENTS ==
  << [type |-> "data-input", label |-> "Data Source", category |-> "input",
      accepts |-> <<>>, produces |-> "dataframe"],
     [type |-> "features-input", label |-> "Features", category |-> "input",
      accepts |-> <<>>, produces |-> "features"],
     [type |-> "split", label |-> "Train/Test Split", category |-> "transform",
      accepts |-> <<"dataframe">>, produces |-> "split-data"],
     [type |-> "preprocessor", label |-> "Preprocessor", category |-> "transform",
      accepts |-> <<"dataframe", "features">>, produces |-> "processed-data"],
     [type |-> "collaborative-filtering", label |-> "Collaborative Filter",
      category |-> "model",
      accepts |-> <<"split-data", "processed-data">>, produces |-> "model"],
     [type |-> "matrix-factorization", label |-> "Matrix Factorization",
      category |-> "model",
      accepts |-> <<"split-data", "processed-data">>, produces |-> "model"],
     [type |-> "xgboost", label |-> "XGBoost", category |-> "model",
      accepts |-> <<"split-data", "processed-data", "features">>,
      produces |-> "model"],
     [type |-> "random-forest", label |-> "Random Forest", category |-> "model",
      accepts |-> <<"split-data", "processed-data", "features">>,
      produces |-> "model"],
     [type |-> "deep-learning", label |-> "Neural Network", category |-> "model",
      accepts |-> <<"split-data", "processed-data", "features">>,
      produces |-> "model"],
     [type |-> "predictions", label |-> "Predictions", category |-> "output",
      accepts |-> <<"model">>, produces |-> "recommendations"],
     [type |-> "evaluation", label |-> "Evaluation", category |-> "output",
      accepts |-> <<"model">>, produces |-> "metrics"] >>

\* Array.prototype.find as the sequence of its results: empty for undefined,
\* otherwise the first element that satisfies the test.
FindByType(seq, type) ==
  LET hits == SelectSeq(seq, LAMBDA c : c.type = type)
  IN  IF hits = <<>> THEN <<>> ELSE <<Head(hits)>>

\* components.find(c => c.id === id), in the same form.
FindById(seq, id) ==
  LET hits == SelectSeq(seq, LAMBDA c : c.id = id)
  IN  IF hits = <<>> THEN <<>> ELSE <<Head(hits)>>

\* Array.prototype.includes.
Includes(seq, v) == \E i \in 1..Len(seq) : seq[i] = v

EXAMPLE_WORKFLOWS ==
  << [name |-> "Simple Collaborative Filtering",
      blocks |-> <<"data-input", "split", "collaborative-filtering",
                   "predictions", "evaluation">>],
     [name |-> "XGBoost with Features",
      blocks |-> <<"data-input", "features-input", "split", "preprocessor",
                   "xgboost", "predictions", "evaluation">>],
     [name |-> "Matrix Factorization Pipeline",
      blocks |-> <<"data-input", "split", "matrix-factorization",
                   "predictions", "evaluation">>],
     [name |-> "Deep Learning Pipeline",
      blocks |-> <<"data-input", "features-input", "split", "preprocessor",
                   "deep-learning", "predictions", "evaluation">>],
     [name |-> "Model Comparison",
      blocks |-> <<"data-input", "split", "xgboost", "random-forest",
                   "collaborative-filtering", "evaluation">>] >>

getSimplifiedComponent(type) ==
  FindByType(SIMPLIFIED_COMPONENTS, type)

getComponentsByCategory(category) ==
  SelectSeq(SIMPLIFIED_COMPONENTS, LAMBDA c : c.category = category)

\* The validator without the test on fromComponent: reading produces of
\* undefined raises a TypeError.
isValidConnectionNoFromCheck(fromType, toType) ==
  LET toComponent   == FindByType(SIMPLIFIED_COMPONENTS, toType)
      fromComponent == FindByType(SIMPLIFIED_COMPONENTS, fromType)
  IN  IF toComponent = <<>> THEN "false"
      ELSE IF fromComponent = <<>> THEN "TypeError"
      ELSE IF \/ Includes(toComponent[1].accepts, fromComponent[1].produces)
              \/ Len(toComponent[1].accepts) = 0
           THEN "true" ELSE "false"

\* The result of a call of isValidConnection: "true", "false", or the name of
\* the exception it raises.
isValidConnectionResult(fromType, toType) ==
  LET toComponent   == FindByType(SIMPLIFIED_COMPONENTS, toType)
      fromComponent == FindByType(SIMPLIFIED_COMPONENTS, fromType)
  IN  IF toComponent = <<>> THEN "false"
      ELSE IF fromComponent = <<>> THEN "false"
      ELSE IF \/ Includes(toComponent[1].accepts, fromComponent[1].produces)
              \/ Len(toComponent[1].accepts) = 0
           THEN "true" ELSE "false"

\* A validator that lets every connection pass.
isValidConnectionAlways(fromType, toType) == TRUE

isValidConnection(fromType, toType) ==
  isValidConnectionResult(fromType, toType) = "true"

(***************************************************************************)
(* State of the mounted RecommenderDesigner and of its Canvas.             *)
(***************************************************************************)
VARIABLES
  components,        \* useState<ComponentData[]>
  connections,       \* useState<Connection[]>
  selectedComponent, \* useState<string | null>
  connectingFrom,    \* useState<string | null>
  zoom,              \* useState(1), in tenths
  pan,               \* useState({ x: 0, y: 0 })
  componentCounter,  \* useRef(0) of RecommenderDesigner (workflow loader)
  canvasCounter,     \* useRef(0) of Canvas (palette drop)
  storage,           \* localStorage item STORAGE_KEY
  file,              \* the document of the last downloaded workflow file
  lastOp,            \* the handler that ran last and the branch it took
  probe,             \* arguments and result of the last validator call
  savedGraph,        \* the components and connections the last file save read
  storageFull,       \* localStorage.setItem throws QuotaExceededError
  pending,           \* state updates queued by a handler and not yet rendered
  attachment         \* the connection line drawn last: its ends and their points

vars == << components, connections, selectedComponent, connectingFrom, zoom,
           pan, componentCounter, canvasCounter, storage, file, lastOp, probe,
           savedGraph, storageFull, pending, attachment >>

\* Palette items the editing-session model drags onto the canvas.
DropTypes == {"data-input", "split"}

\* Palette items the persistence model drags onto the canvas.
PersistTypes == {"data-input", "matrix-factorization"}

\* Canvas coordinates a drop or a drag ends at.
Positions == {[x |-> 100, y |-> 100], [x |-> 300, y |-> 120]}

\* Values of the n_factors number input of the configuration panel: the
\* default, and NaN (parseFloat of the emptied input).
ConfigInputs == {"100", "NaN"}

\* Block types of the workflow templates: two catalog types and a type the
\* catalog does not hold.
BlockTypes == {"data-input", "split", "unknown-block"}

\* All sequences over S of length at most n.
RECURSIVE SeqsUpTo(_, _)
SeqsUpTo(S, n) ==
  IF n = 0 THEN {<<>>}
  ELSE LET shorter == SeqsUpTo(S, n - 1)
       IN  shorter \cup {Append(s, e) : s \in {t \in shorter : Len(t) = n - 1}, e \in S}

Templates == SeqsUpTo(BlockTypes, MaxBlocks) \ {<<>>}

LoaderTemplates == SeqsUpTo(BlockTypes, MaxLoaderBlocks) \ {<<>>}

\* Type identifiers handed to the validator: the catalog's, the legacy
\* 'data-source' and one that never existed.
ProbeTypes ==
  {SIMPLIFIED_COMPONENTS[i].type : i \in 1..Len(SIMPLIFIED_COMPONENTS)}
    \cup {"data-source", "invalid-type"}

ComponentId(n) == "component-" \o ToString(n)

(***************************************************************************)
(* Persistence: JSON.stringify and JSON.parse of the graph document.       *)
(***************************************************************************)
\* JSON.stringify of a config value: NaN has no JSON form and is written null.
StringifyValue(v) == IF v = "NaN" THEN "null" ELSE v

\* JSON.stringify of one component; a key whose value is undefined is left out.
StringifyComponent(c) ==
  [id |-> c.id, type |-> c.type, label |-> c.label, position |-> c.position,
   config |-> IF c.config.defined
              THEN [defined |-> TRUE, n_factors |-> StringifyValue(c.config.n_factors)]
              ELSE NoConfig]

\* A JavaScript value read from a field of a parsed document: an array with
\* its items, or one of the non-arrays JSON can carry, by its literal (a
\* missing key reads as undefined).
JsArray(items) == [js |-> "array", items |-> items]
JsValue(literal) == [js |-> literal, items |-> <<>>]

NonArrayLiterals == {"undefined", "null", "0", "5", "''", "'abc'", "{}"}

\* ToBoolean, as the || operator applies it.
Truthy(v) == v.js \notin {"undefined", "null", "0", "''"}

IsArray(v) == v.js = "array"

\* `value || []`.
OrEmptyArray(v) == IF Truthy(v) THEN v ELSE JsArray(<<>>)

\* The text of a file or of a localStorage item, by what JSON.parse makes of
\* it: "corrupt" does not parse, "null" parses to null, "object" parses to an
\* object with these two fields; "absent" is the item getItem returns null for.
Text(syntax, comps, conns) ==
  [syntax |-> syntax, components |-> comps, connections |-> conns]

AbsentItem == Text("absent", JsValue("undefined"), JsValue("undefined"))
CorruptText == Text("corrupt", JsValue("undefined"), JsValue("undefined"))
NullText == Text("null", JsValue("undefined"), JsValue("undefined"))

\* JSON.stringify({ components, connections, ... }).
Stringify(comps, conns) ==
  Text("object",
       JsArray([i \in 1..Len(comps) |-> StringifyComponent(comps[i])]),
       JsArray(conns))

\* The body of the try block of the mount effect and of reader.onload:
\* JSON.parse, then `data.components || []` and `data.connections || []`.
\* threw names the exception the block raises, "" when it raises none.
Parse(text) ==
  [threw |-> IF text.syntax = "corrupt" THEN "SyntaxError"
             ELSE IF text.syntax = "null" THEN "TypeError" ELSE "",
   components  |-> OrEmptyArray(text.components),
   connections |-> OrEmptyArray(text.connections)]

\* Rendering the designer with these values as components and connections
\* throws: Canvas calls .map on both.
RenderThrows(comps, conns) == ~IsArray(comps) \/ ~IsArray(conns)

(***************************************************************************)
(* Graph store: the state updaters of RecommenderDesigner.                 *)
(***************************************************************************)
addComponent(prev, component) == Append(prev, component)

\* An update that merges the fields into every component.
updateComponentAll(prev, id, updates) ==
  [i \in 1..Len(prev) |->
     [f \in DOMAIN prev[i] |->
        IF f \in DOMAIN updates THEN updates[f] ELSE prev[i][f]]]

\* { ...comp, ...updates } for every component with this id.
updateComponent(prev, id, updates) ==
  [i \in 1..Len(prev) |->
     IF prev[i].id = id
     THEN [f \in DOMAIN prev[i] |->
             IF f \in DOMAIN updates THEN updates[f] ELSE prev[i][f]]
     ELSE prev[i]]

removeComponentNodes(prev, id) == SelectSeq(prev, LAMBDA comp : comp.id # id)

\* The cascade that forgets the edges entering the removed node.
removeComponentEdgesFromOnly(prev, id) ==
  SelectSeq(prev, LAMBDA conn : conn.from # id)

removeComponentEdges(prev, id) ==
  SelectSeq(prev, LAMBDA conn : conn.from # id /\ conn.to # id)

EdgeId(from, to) == from \o "-" \o to

\* The updater without the duplicate test.
addConnectionAlways(prev, from, to) ==
  Append(prev, [id |-> EdgeId(from, to), from |-> from, to |-> to])

addConnection(prev, from, to) ==
  LET id == EdgeId(from, to)
  IN  IF \E i \in 1..Len(prev) : prev[i].id = id
      THEN prev
      ELSE Append(prev, [id |-> id, from |-> from, to |-> to])

removeConnection(prev, id) == SelectSeq(prev, LAMBDA conn : conn.id # id)

\* A setter that appends the value to the previous state.
setStateAppend(prev, value) == prev \o value

\* setComponents(value) / setConnections(value): the setter called with a value,
\* not with an updater of the previous state.
setStateValue(prev, value) == value

\* A write that removes the item when it fails.
SetItemRemovesOnFailure(old, text) == IF storageFull THEN AbsentItem ELSE text

\* localStorage.setItem inside the try block of the auto-save effect: the item
\* afterwards, `old` when the write throws.
SetItem(old, text) == IF storageFull THEN old ELSE text

\* The auto-save effect: runs after every render that changed components or
\* connections and writes the document under STORAGE_KEY.
AutoSave(comps, conns) == SetItem(storage, Stringify(comps, conns))

(***************************************************************************)
(* Workflow loader: handleLoadWorkflow.                                    *)
(***************************************************************************)
startX == 100
startY == 100
horizontalSpacing == 220
verticalSpacing == 140
\* Blocks per row of the flowing layout.
GridColumns == 4

\* The flowing layout with row and column exchanged.
GridPositionTransposed(index) ==
  [x |-> startX + (index \div GridColumns) * horizontalSpacing,
   y |-> startY + (index % GridColumns) * verticalSpacing]

\* Position of the block at JavaScript index `index` in the flowing layout.
GridPosition(index) ==
  LET row == index \div GridColumns
      col == index % GridColumns
  IN  [x |-> startX + col * horizontalSpacing,
       y |-> startY + row * verticalSpacing]

\* workflow.blocks.forEach from JavaScript index `index` on. acc holds the two
\* local arrays, componentCounter.current and whether the callback threw.
RECURSIVE forEachBlock(_, _, _)
forEachBlock(blocks, index, acc) ==
  IF index >= Len(blocks) \/ acc.threw THEN acc
  ELSE
    LET blockType    == blocks[index + 1]
        componentDef == getSimplifiedComponent(blockType)
    IN  IF componentDef = <<>> THEN forEachBlock(blocks, index + 1, acc)
        ELSE
          LET counter == acc.counter + 1
              newComponent ==
                [id |-> ComponentId(counter), type |-> blockType,
                 label |-> componentDef[1].label,
                 position |-> GridPosition(index),
                 config |-> NoConfig]
              pushed == Append(acc.newComponents, newComponent)
          IN  IF index > 0
              THEN \* prevComponent = newComponents[index - 1], read after the push
                   IF index > Len(pushed)
                   THEN \* undefined.id: TypeError
                        [newComponents |-> pushed,
                         newConnections |-> acc.newConnections,
                         counter |-> counter, threw |-> TRUE]
                   ELSE LET prevComponent == pushed[index]
                        IN  forEachBlock(blocks, index + 1,
                              [newComponents |-> pushed,
                               newConnections |->
                                 Append(acc.newConnections,
                                   [id |-> EdgeId(prevComponent.id, newComponent.id),
                                    from |-> prevComponent.id,
                                    to |-> newComponent.id]),
                               counter |-> counter, threw |-> FALSE])
              ELSE forEachBlock(blocks, index + 1,
                     [newComponents |-> pushed,
                      newConnections |-> acc.newConnections,
                      counter |-> counter, threw |-> FALSE])

\* The local state handleLoadWorkflow ends its loop with.
ExpandWorkflow(blocks, counter) ==
  forEachBlock(blocks, 0,
    [newComponents |-> <<>>, newConnections |-> <<>>,
     counter |-> counter, threw |-> FALSE])

(***************************************************************************)
(* Canvas.tsx: where a connection line attaches to its two components.     *)
(***************************************************************************)
COMPONENT_WIDTH == 188
COMPONENT_HEIGHT == 118

\* The 90-degree sector that (Math.atan2(dy, dx) * 180 / Math.PI + 360) % 360
\* lies in: 0 for [315, 360) and [0, 45), 1 for [45, 135), 2 for [135, 225),
\* 3 for [225, 315).  atan2(0, 0) is 0.
DegreesSector(dx, dy) ==
  IF dx = 0 /\ dy = 0 THEN 0
  ELSE IF dx > 0 /\ -dx <= dy /\ dy < dx THEN 0
  ELSE IF dy > 0 /\ -dy < dx /\ dx <= dy THEN 1
  ELSE IF dx < 0 /\ dx < dy /\ dy <= -dx THEN 2
  ELSE 3

\* The attachment point that uses the source's angle for the target as well.
getConnectionPointUnrotated(fromComp, toComp, isSource) ==
  LET dx == toComp.position.x - fromComp.position.x
      dy == toComp.position.y - fromComp.position.y
      component == IF isSource THEN fromComp ELSE toComp
      baseX == component.position.x
      baseY == component.position.y
      sector == DegreesSector(dx, dy)
  IN  IF sector = 0
      THEN [x |-> baseX + COMPONENT_WIDTH, y |-> baseY + COMPONENT_HEIGHT \div 2]
      ELSE IF sector = 1
      THEN [x |-> baseX + COMPONENT_WIDTH \div 2, y |-> baseY + COMPONENT_HEIGHT]
      ELSE IF sector = 2
      THEN [x |-> baseX, y |-> baseY + COMPONENT_HEIGHT \div 2]
      ELSE [x |-> baseX + COMPONENT_WIDTH \div 2, y |-> baseY]

getConnectionPoint(fromComp, toComp, isSource) ==
  LET fromCenter == [x |-> fromComp.position.x + COMPONENT_WIDTH \div 2,
                     y |-> fromComp.position.y + COMPONENT_HEIGHT \div 2]
      toCenter   == [x |-> toComp.position.x + COMPONENT_WIDTH \div 2,
                     y |-> toComp.position.y + COMPONENT_HEIGHT \div 2]
      dx == toCenter.x - fromCenter.x
      dy == toCenter.y - fromCenter.y
      component == IF isSource THEN fromComp ELSE toComp
      baseX == component.position.x
      baseY == component.position.y
      \* adjustedDegrees: degrees for the source, (degrees + 180) % 360 for
      \* the target, which moves the sector on by two
      adjusted == IF isSource THEN DegreesSector(dx, dy)
                  ELSE (DegreesSector(dx, dy) + 2) % 4
  IN  IF adjusted = 0
      THEN \* right edge
           [x |-> baseX + COMPONENT_WIDTH, y |-> baseY + COMPONENT_HEIGHT \div 2]
      ELSE IF adjusted = 1
      THEN \* bottom edge
           [x |-> baseX + COMPONENT_WIDTH \div 2, y |-> baseY + COMPONENT_HEIGHT]
      ELSE IF adjusted = 2
      THEN \* left edge
           [x |-> baseX, y |-> baseY + COMPONENT_HEIGHT \div 2]
      ELSE \* top edge
           [x |-> baseX + COMPONENT_WIDTH \div 2, y |-> baseY]

\* No connection line drawn yet.
NoAttachment ==
  [drawn |-> FALSE, from |-> [x |-> 0, y |-> 0], to |-> [x |-> 0, y |-> 0],
   source |-> [x |-> 0, y |-> 0], target |-> [x |-> 0, y |-> 0]]

(***************************************************************************)
(* Initial state: the designer mounted on an empty localStorage.           *)
(***************************************************************************)
InitialZoom == 10
Origin == [x |-> 0, y |-> 0]
NoProbe == [fromType |-> "", toType |-> "", result |-> ""]

Init ==
  /\ components = <<>>
  /\ connections = <<>>
  /\ selectedComponent = Null
  /\ connectingFrom = Null
  /\ zoom = InitialZoom
  /\ pan = Origin
  /\ componentCounter = 0
  /\ canvasCounter = 0
  /\ storageFull = FALSE
  /\ storage = Stringify(<<>>, <<>>)
  /\ file = <<>>
  /\ lastOp = "mount"
  /\ probe = NoProbe
  /\ savedGraph = [components |-> <<>>, connections |-> <<>>]
  /\ pending = <<>>
  /\ attachment = NoAttachment

(***************************************************************************)
(* Handlers.  Every handler that changes components or connections ends    *)
(* with the auto-save effect of the render it causes.                      *)
(***************************************************************************)
\* Steps that end with an exception no handler catches: React unmounts the
\* tree, and the handlers of the designer are gone with it.
FatalErrors ==
  {"loadFromFile:renderTypeError", "remount:renderTypeError",
   "remount:effectError"}
Crashed == lastOp \in FatalErrors

\* A handler runs on a mounted designer whose queued updates are rendered.
Ready == ~Crashed /\ pending = <<>>

\* Canvas drop: a palette item becomes a new node.
Drop(type, position) ==
  /\ Ready
  /\ canvasCounter < MaxCounter
  /\ Len(components) < MaxNodes
  /\ canvasCounter' = canvasCounter + 1
  /\ components' = addComponent(components,
       [id |-> ComponentId(canvasCounter'), type |-> type,
        label |-> getSimplifiedComponent(type)[1].label,
        position |-> position, config |-> NoConfig])
  /\ storage' = AutoSave(components', connections)
  /\ lastOp' = "drop"
  /\ UNCHANGED << connections, selectedComponent, connectingFrom, zoom, pan,
                  componentCounter, file, probe,
                  savedGraph,
                  storageFull, pending,
                  attachment >>

\* End of a drag of canvas component i.
DragEnd(i, position) ==
  /\ Ready
  /\ i \in 1..Len(components)
  /\ components' = updateComponent(components, components[i].id,
                                   [position |-> position])
  /\ storage' = AutoSave(components', connections)
  /\ lastOp' = "dragEnd"
  /\ UNCHANGED << connections, selectedComponent, connectingFrom, zoom, pan,
                  componentCounter, canvasCounter, file, probe,
                  savedGraph,
                  storageFull, pending,
                  attachment >>

\* Types whose specification (componentSpecs) has the n_factors number field.
HasNumberConfig(type) == type = "matrix-factorization"

\* Save Configuration in the panel opened on component i.
ConfigSave(i, value) ==
  /\ Ready
  /\ i \in 1..Len(components)
  /\ HasNumberConfig(components[i].type)
  /\ components' = updateComponent(components, components[i].id,
       [config |-> [defined |-> TRUE, n_factors |-> value]])
  /\ storage' = AutoSave(components', connections)
  /\ lastOp' = "configSave"
  /\ UNCHANGED << connections, selectedComponent, connectingFrom, zoom, pan,
                  componentCounter, canvasCounter, file, probe,
                  savedGraph,
                  storageFull, pending,
                  attachment >>

\* Click on canvas component i.
Select(i) ==
  /\ Ready
  /\ i \in 1..Len(components)
  /\ selectedComponent' = components[i].id
  /\ lastOp' = "select"
  /\ UNCHANGED << components, connections, connectingFrom, zoom, pan,
                  componentCounter, canvasCounter, storage, file, probe,
                  savedGraph,
                  storageFull, pending,
                  attachment >>

\* Click on the empty canvas.
HandleCanvasClick ==
  /\ Ready
  /\ selectedComponent' = Null
  /\ lastOp' = "canvasClick"
  /\ UNCHANGED << components, connections, connectingFrom, zoom, pan,
                  componentCounter, canvasCounter, storage, file, probe,
                  savedGraph,
                  storageFull, pending,
                  attachment >>

\* The delete button of canvas component i, rendered when it is selected.
RemoveComponent(i) ==
  /\ Ready
  /\ i \in 1..Len(components)
  /\ selectedComponent = components[i].id
  /\ LET id == components[i].id
     IN  /\ components' = removeComponentNodes(components, id)
         /\ connections' = removeComponentEdges(connections, id)
         /\ selectedComponent' = IF selectedComponent = id THEN Null
                                 ELSE selectedComponent
  /\ storage' = AutoSave(components', connections')
  /\ lastOp' = IF \E k \in 1..Len(connections) :
                     \/ connections[k].from = components[i].id
                     \/ connections[k].to = components[i].id
                THEN "removeComponent:cascade" ELSE "removeComponent"
  /\ UNCHANGED << connectingFrom, zoom, pan, componentCounter, canvasCounter,
                  file, probe,
                  savedGraph,
                  storageFull, pending,
                  attachment >>

HasEdgeId(conns, id) == \E k \in 1..Len(conns) : conns[k].id = id

\* The connect gesture on canvas component i: the body shared by
\* handleConnectionPointClick and handleContextMenu.
ConnectGesture(i) ==
  /\ Ready
  /\ i \in 1..Len(components)
  /\ LET component == components[i]
         fromComp  == FindById(components, connectingFrom)
     IN  IF connectingFrom = Null
         THEN /\ connectingFrom' = component.id
              /\ lastOp' = "connect:start"
              /\ UNCHANGED connections
         ELSE IF connectingFrom = component.id
         THEN /\ connectingFrom' = Null
              /\ lastOp' = "connect:cancel"
              /\ UNCHANGED connections
         ELSE IF /\ fromComp # <<>>
                 /\ isValidConnection(fromComp[1].type, component.type)
         THEN /\ \/ Len(connections) < MaxEdges
                 \/ HasEdgeId(connections, EdgeId(connectingFrom, component.id))
              /\ connections' =
                   addConnection(connections, connectingFrom, component.id)
              /\ connectingFrom' = Null
              /\ lastOp' =
                   IF HasEdgeId(connections, EdgeId(connectingFrom, component.id))
                   THEN "connect:duplicate" ELSE "connect:added"
         ELSE /\ connectingFrom' = Null
              /\ lastOp' = "connect:rejected"
              /\ UNCHANGED connections
  /\ storage' = AutoSave(components, connections')
  /\ UNCHANGED << components, selectedComponent, zoom, pan, componentCounter,
                  canvasCounter, file, probe,
                  savedGraph,
                  storageFull, pending,
                  attachment >>

\* Click on one of the four connection points of canvas component i.
HandleConnectionPointClick(i) == ConnectGesture(i)

\* Right click on canvas component i.
HandleContextMenu(i) == ConnectGesture(i)

\* The delete button of connection k; a connection is drawn only when both
\* its ends are found among the components.
RemoveConnection(k) ==
  /\ Ready
  /\ k \in 1..Len(connections)
  /\ \E i \in 1..Len(components) : components[i].id = connections[k].from
  /\ \E i \in 1..Len(components) : components[i].id = connections[k].to
  /\ connections' = removeConnection(connections, connections[k].id)
  /\ storage' = AutoSave(components, connections')
  /\ lastOp' = "removeConnection"
  /\ UNCHANGED << components, selectedComponent, connectingFrom, zoom, pan,
                  componentCounter, canvasCounter, file, probe,
                  savedGraph,
                  storageFull, pending,
                  attachment >>

ClearCanvas ==
  /\ Ready
  /\ components' = <<>>
  /\ connections' = <<>>
  /\ selectedComponent' = Null
  /\ storage' = AutoSave(components', connections')
  /\ lastOp' = "clearCanvas"
  /\ UNCHANGED << connectingFrom, zoom, pan, componentCounter, canvasCounter,
                  file, probe,
                  savedGraph,
                  storageFull, pending,
                  attachment >>

\* handleSaveToFile: the downloaded document.
HandleSaveToFile ==
  /\ Ready
  /\ file' = << Stringify(components, connections) >>
  /\ savedGraph' = [components |-> components, connections |-> connections]
  /\ lastOp' = "saveToFile"
  /\ UNCHANGED << components, connections, selectedComponent, connectingFrom,
                  zoom, pan, componentCounter, canvasCounter, storage, probe,
                  storageFull, pending,
                  attachment >>

\* handleLoadFromFile with the chosen file read: reader.onload on its text.
LoadFromFile(text) ==
  /\ Ready
  /\ LET data == Parse(text)
     IN  IF data.threw # ""
         THEN \* caught: console.error and alert
              /\ lastOp' = "loadFromFile:alert"
              /\ UNCHANGED << components, connections, storage >>
         ELSE IF RenderThrows(data.components, data.connections)
         THEN \* the render with the new state throws and nothing is committed
              /\ lastOp' = "loadFromFile:renderTypeError"
              /\ UNCHANGED << components, connections, storage >>
         ELSE /\ components' = setStateValue(components, data.components.items)
              /\ connections' = setStateValue(connections, data.connections.items)
              /\ storage' = AutoSave(components', connections')
              /\ lastOp' = "loadFromFile"
  /\ UNCHANGED << selectedComponent, connectingFrom, zoom, pan,
                  componentCounter, canvasCounter, file, probe,
                  savedGraph,
                  storageFull, pending,
                  attachment >>

\* handleLoadWorkflow(workflow), while the counter stays within cap.  When the
\* loop throws, the three clearing updates queued before it are what is
\* applied and the counter keeps its increments.
LoadWorkflow(blocks, cap) ==
  /\ Ready
  /\ componentCounter + Len(blocks) <= cap
  /\ LET done == ExpandWorkflow(blocks, componentCounter)
     IN  /\ componentCounter' = done.counter
         /\ selectedComponent' = Null
         /\ IF done.threw
            THEN /\ components' = <<>>
                 /\ connections' = <<>>
                 /\ lastOp' = "loadWorkflow:TypeError"
                 /\ UNCHANGED << zoom, pan >>
            ELSE /\ components' = setStateValue(<<>>, done.newComponents)
                 /\ connections' = setStateValue(<<>>, done.newConnections)
                 /\ zoom' = InitialZoom
                 /\ pan' = Origin
                 /\ lastOp' = "loadWorkflow"
  /\ storage' = AutoSave(components', connections')
  /\ UNCHANGED << connectingFrom, canvasCounter, file, probe,
                  savedGraph,
                  storageFull, pending,
                  attachment >>

HandleLoadWorkflow(blocks) == LoadWorkflow(blocks, MaxCounter)

\* handleLoadFromFile on the file the application downloaded last.
HandleLoadFromFile ==
  /\ file # <<>>
  /\ LoadFromFile(file[1])

\* The load effect without its try/catch: the exception of the parse escapes.
LoadEffectNoCatch(item) ==
  IF item.syntax = "absent" THEN "skipped"
  ELSE IF Parse(item).threw # "" THEN "escaped"
  ELSE "restored"

\* How the load effect of the mount ends on `item`: "skipped" by `if (saved)`,
\* "caught" when its try block throws, "restored" when it called the setters.
LoadEffect(item) ==
  IF item.syntax = "absent" THEN "skipped"
  ELSE IF Parse(item).threw # "" THEN "caught"
  ELSE "restored"

\* The designer mounts while localStorage holds `item` under STORAGE_KEY: the
\* state and both refs start afresh, the first render's effects run (the load
\* effect queues the restored lists, the auto-save effect writes the empty
\* lists of that render), and the render of the restored lists follows with
\* its own auto-save.
Mount(item) ==
  /\ LET data     == Parse(item)
         outcome  == LoadEffect(item)
         restored == outcome = "restored"
         first    == SetItem(item, Stringify(<<>>, <<>>))
     IN  IF outcome = "escaped"
         THEN \* an effect that throws takes the tree down
              /\ components' = <<>>
              /\ connections' = <<>>
              /\ storage' = item
              /\ lastOp' = "remount:effectError"
         ELSE IF restored /\ RenderThrows(data.components, data.connections)
         THEN /\ components' = <<>>
              /\ connections' = <<>>
              /\ storage' = first
              /\ lastOp' = "remount:renderTypeError"
         ELSE IF restored
         THEN /\ components' = data.components.items
              /\ connections' = data.connections.items
              /\ storage' = SetItem(first, Stringify(components', connections'))
              /\ lastOp' = "remount"
         ELSE /\ components' = <<>>
              /\ connections' = <<>>
              /\ storage' = first
              /\ lastOp' = IF outcome = "skipped" THEN "remount:absent"
                           ELSE "remount:caught"
  /\ selectedComponent' = Null
  /\ connectingFrom' = Null
  /\ zoom' = InitialZoom
  /\ pan' = Origin
  /\ componentCounter' = 0
  /\ canvasCounter' = 0
  /\ UNCHANGED << file, probe,
                  savedGraph,
                  storageFull, pending,
                  attachment >>

\* The designer is unmounted and mounted again (navigation, page reload).
Remount == Mount(storage)

\* Where the editing-session model drops palette items.
DropPosition == [x |-> 100, y |-> 100]

\* The editing session: palette drops, selection, removals, the connect
\* gesture, workflow templates and remounts.
Next ==
  \/ \E t \in DropTypes : Drop(t, DropPosition)
  \/ \E i \in 1..Len(components) : Select(i)
  \/ HandleCanvasClick
  \/ \E i \in 1..Len(components) : RemoveComponent(i)
  \/ \E i \in 1..Len(components) : HandleConnectionPointClick(i)
  \/ \E i \in 1..Len(components) : HandleContextMenu(i)
  \/ \E k \in 1..Len(connections) : RemoveConnection(k)
  \/ ClearCanvas
  \/ \E w \in Templates : HandleLoadWorkflow(w)
  \/ Remount

Spec == Init /\ [][Next]_vars

\* Saving to and loading from a file: graphs built by drops, drags,
\* configuration and connections, written to a file and read back.
NextPersist ==
  \/ \E t \in PersistTypes, p \in Positions : Drop(t, p)
  \/ \E i \in 1..Len(components), p \in Positions : DragEnd(i, p)
  \/ \E i \in 1..Len(components), v \in ConfigInputs : ConfigSave(i, v)
  \/ \E i \in 1..Len(components) : HandleConnectionPointClick(i)
  \/ ClearCanvas
  \/ HandleSaveToFile
  \/ HandleLoadFromFile

SpecPersist == Init /\ [][NextPersist]_vars

\* One call of the validator.
Validate(fromType, toType) ==
  /\ probe' = [fromType |-> fromType, toType |-> toType,
               result |-> isValidConnectionResult(fromType, toType)]
  /\ lastOp' = "isValidConnection"
  /\ UNCHANGED << components, connections, selectedComponent, connectingFrom,
                  zoom, pan, componentCounter, canvasCounter, storage, file,
                  savedGraph,
                  storageFull, pending,
                  attachment >>

\* The validator called on every pair of type identifiers.
NextValidator == \E f \in ProbeTypes, t \in ProbeTypes : Validate(f, t)

SpecValidator == Init /\ [][NextValidator]_vars

\* The loader on every template of up to MaxLoaderBlocks blocks.
LoaderLoadWorkflow(blocks) == LoadWorkflow(blocks, MaxLoaderBlocks)

NextLoader ==
  \/ \E w \in LoaderTemplates : LoaderLoadWorkflow(w)
  \/ ClearCanvas

SpecLoader == Init /\ [][NextLoader]_vars

\* A two-node graph as another session wrote it to a file.
SampleComponents ==
  << [id |-> "component-1", type |-> "data-input", label |-> "Data Source",
      position |-> [x |-> 100, y |-> 100], config |-> NoConfig],
     [id |-> "component-2", type |-> "split", label |-> "Train/Test Split",
      position |-> [x |-> 300, y |-> 120], config |-> NoConfig] >>

SampleConnections ==
  << [id |-> "component-1-component-2", from |-> "component-1",
      to |-> "component-2"] >>

\* Values of the components and connections fields of a document that was
\* not written by this session.
ComponentsFields ==
  {JsArray(SampleComponents), JsArray(<<>>)}
    \cup {JsValue(l) : l \in NonArrayLiterals}

ConnectionsFields ==
  {JsArray(SampleConnections), JsArray(<<>>)}
    \cup {JsValue(l) : l \in NonArrayLiterals}

\* Texts of the files the user may choose in the file dialog: unparsable,
\* null, and objects with one field varied at a time.
ExternalTexts ==
  {CorruptText, NullText}
    \cup {Text("object", c, JsArray(SampleConnections)) : c \in ComponentsFields}
    \cup {Text("object", JsArray(SampleComponents), e) : e \in ConnectionsFields}
    \cup {Text("object", JsValue("undefined"), JsValue("undefined"))}

\* What localStorage may hold under STORAGE_KEY when the designer mounts.
StoredItems == ExternalTexts \cup {AbsentItem}

\* The designer mounts after the item under STORAGE_KEY was removed or written
\* from outside this session.
MountOn(item) == Mount(item)

\* Loading and restoring: graphs built by drops and connections, replaced by
\* files, by workflow templates and by what a mount finds in localStorage.
NextLoad ==
  \/ \E t \in DropTypes : Drop(t, DropPosition)
  \/ \E i \in 1..Len(components) : HandleConnectionPointClick(i)
  \/ \E t \in ExternalTexts : LoadFromFile(t)
  \/ \E w \in Templates : HandleLoadWorkflow(w)
  \/ ClearCanvas
  \/ \E item \in StoredItems : MountOn(item)
  \/ Remount

SpecLoad == Init /\ [][NextLoad]_vars

\* Unmounting and mounting again: graphs built by drops, configuration and
\* connections, restored from the auto-saved document.
NextRemount ==
  \/ \E t \in PersistTypes : Drop(t, DropPosition)
  \/ \E i \in 1..Len(components), v \in ConfigInputs : ConfigSave(i, v)
  \/ \E i \in 1..Len(components) : HandleConnectionPointClick(i)
  \/ ClearCanvas
  \/ Remount

SpecRemount == Init /\ [][NextRemount]_vars

\* localStorage runs out of quota: setItem throws from now on.
StorageFills ==
  /\ ~storageFull
  /\ storageFull' = TRUE
  /\ UNCHANGED << components, connections, selectedComponent, connectingFrom,
                  zoom, pan, componentCounter, canvasCounter, storage, file,
                  lastOp, probe, savedGraph, pending,
                  attachment >>

\* Quota is available again.
StorageFrees ==
  /\ storageFull
  /\ storageFull' = FALSE
  /\ UNCHANGED << components, connections, selectedComponent, connectingFrom,
                  zoom, pan, componentCounter, canvasCounter, storage, file,
                  lastOp, probe, savedGraph, pending,
                  attachment >>

\* Editing while the writes of the auto-save may fail.
NextQuota ==
  \/ \E t \in DropTypes : Drop(t, DropPosition)
  \/ \E i \in 1..Len(components) : HandleConnectionPointClick(i)
  \/ ClearCanvas
  \/ \E w \in Templates : HandleLoadWorkflow(w)
  \/ StorageFills
  \/ StorageFrees

SpecQuota == Init /\ [][NextQuota]_vars

(***************************************************************************)
(* The bulk handlers step by step: the handler queues its state updates,   *)
(* React renders them and the auto-save effect of that render runs.        *)
(***************************************************************************)
\* One setter call waiting for the next render.
Queue(target, value) == [target |-> target, value |-> value]

\* The state `target` has once the updates of batch are applied to old.
Apply(target, batch, old) ==
  LET hits == SelectSeq(batch, LAMBDA u : u.target = target)
  IN  IF hits = <<>> THEN old ELSE hits[Len(hits)].value

\* A render after every single setter call.
BatchOne(queue) == 1

\* How many of the queued updates the next render applies when a React event
\* handler queued them (clearCanvas, handleLoadWorkflow): all of them.
BatchInEventHandler(queue) == Len(queue)

\* The same for updates queued outside React event handlers (reader.onload):
\* with a root created by createRoot, all of them.
BatchInCallback(queue) == Len(queue)

\* Files whose two fields are arrays that belong together.
ArrayTexts ==
  {Stringify(SampleComponents, SampleConnections), Stringify(<<>>, <<>>)}

\* clearCanvas up to its return.
ClearCanvasCall ==
  /\ Ready
  /\ pending' = << Queue("components", <<>>), Queue("connections", <<>>),
                   Queue("selectedComponent", Null) >>
  /\ lastOp' = "clearCanvas:queued"
  /\ UNCHANGED << components, connections, selectedComponent, connectingFrom,
                  zoom, pan, componentCounter, canvasCounter, storage, file,
                  probe, savedGraph, storageFull,
                  attachment >>

\* reader.onload of handleLoadFromFile up to its return.
ReaderOnload(text) ==
  /\ Ready
  /\ LET data == Parse(text)
     IN  IF data.threw # ""
         THEN /\ lastOp' = "loadFromFile:alert"
              /\ UNCHANGED pending
         ELSE /\ pending' = << Queue("components", data.components.items),
                               Queue("connections", data.connections.items) >>
              /\ lastOp' = "loadFromFile:queued"
  /\ UNCHANGED << components, connections, selectedComponent, connectingFrom,
                  zoom, pan, componentCounter, canvasCounter, storage, file,
                  probe, savedGraph, storageFull,
                  attachment >>

\* handleLoadWorkflow up to its return, or up to the TypeError of its loop.
LoadWorkflowCall(blocks) ==
  /\ Ready
  /\ componentCounter + Len(blocks) <= MaxCounter
  /\ LET done == ExpandWorkflow(blocks, componentCounter)
         clear == << Queue("components", <<>>), Queue("connections", <<>>),
                     Queue("selectedComponent", Null) >>
     IN  /\ componentCounter' = done.counter
         /\ IF done.threw
            THEN /\ pending' = clear
                 /\ lastOp' = "loadWorkflow:TypeError"
            ELSE /\ pending' = clear \o
                      << Queue("components", done.newComponents),
                         Queue("connections", done.newConnections),
                         Queue("zoom", InitialZoom), Queue("pan", Origin) >>
                 /\ lastOp' = "loadWorkflow:queued"
  /\ UNCHANGED << components, connections, selectedComponent, connectingFrom,
                  zoom, pan, canvasCounter, storage, file, probe, savedGraph,
                  storageFull,
                  attachment >>

\* React renders queued updates and the auto-save effect of the render runs.
Render ==
  /\ ~Crashed
  /\ pending # <<>>
  /\ LET n     == IF lastOp = "loadFromFile:queued"
                  THEN BatchInCallback(pending)
                  ELSE BatchInEventHandler(pending)
         batch == SubSeq(pending, 1, n)
     IN  /\ components' = Apply("components", batch, components)
         /\ connections' = Apply("connections", batch, connections)
         /\ selectedComponent' = Apply("selectedComponent", batch, selectedComponent)
         /\ zoom' = Apply("zoom", batch, zoom)
         /\ pan' = Apply("pan", batch, pan)
         /\ pending' = SubSeq(pending, n + 1, Len(pending))
         /\ lastOp' = IF pending' = <<>> THEN "render" ELSE lastOp
  /\ storage' = AutoSave(components', connections')
  /\ UNCHANGED << connectingFrom, componentCounter, canvasCounter, file, probe,
                  savedGraph, storageFull,
                  attachment >>

\* Graphs built by drops and connections, cleared and replaced in steps.
NextRender ==
  \/ \E t \in DropTypes : Drop(t, DropPosition)
  \/ \E i \in 1..Len(components) : HandleConnectionPointClick(i)
  \/ ClearCanvasCall
  \/ \E t \in ArrayTexts : ReaderOnload(t)
  \/ \E w \in Templates : LoadWorkflowCall(w)
  \/ Render

SpecRender == Init /\ [][NextRender]_vars

\* Positions of the two components of a connection: a lattice whose steps
\* put the target to the right, below, to the left, above and on every
\* diagonal of the source.
LatticePositions ==
  {[x |-> 100 + 100 * i, y |-> 100 + 100 * j] :
     i \in 0..MaxLatticeSteps, j \in 0..(MaxLatticeSteps - 1)}

\* Canvas renders the line of a connection between components at these
\* positions.
DrawConnection(fromPosition, toPosition) ==
  /\ LET fromComponent == [position |-> fromPosition]
         toComponent   == [position |-> toPosition]
     IN  attachment' =
           [drawn |-> TRUE, from |-> fromPosition, to |-> toPosition,
            source |-> getConnectionPoint(fromComponent, toComponent, TRUE),
            target |-> getConnectionPoint(fromComponent, toComponent, FALSE)]
  /\ UNCHANGED << components, connections, selectedComponent, connectingFrom,
                  zoom, pan, componentCounter, canvasCounter, storage, file,
                  lastOp, probe, savedGraph, storageFull, pending >>

NextGeometry ==
  \E f \in LatticePositions, t \in LatticePositions : DrawConnection(f, t)

SpecGeometry == Init /\ [][NextGeometry]_vars

\* Load of the k-th example workflow from the palette.
LoadExampleWorkflow(k) ==
  LoadWorkflow(EXAMPLE_WORKFLOWS[k].blocks, MaxExampleCounter)

\* The example workflows loaded one after the other, with clears in between.
NextExamples ==
  \/ \E k \in 1..Len(EXAMPLE_WORKFLOWS) : LoadExampleWorkflow(k)
  \/ ClearCanvas

SpecExamples == Init /\ [][NextExamples]_vars

\* The editing session with files: selection, the connect gesture and
\* removals on graphs that drops, workflow templates and file loads put on
\* the canvas.
NextSession ==
  \/ \E t \in DropTypes : Drop(t, DropPosition)
  \/ \E i \in 1..Len(components) : Select(i)
  \/ \E i \in 1..Len(components) : RemoveComponent(i)
  \/ \E i \in 1..Len(components) : HandleConnectionPointClick(i)
  \/ ClearCanvas
  \/ \E w \in Templates : HandleLoadWorkflow(w)
  \/ \E t \in ArrayTexts : LoadFromFile(t)

SpecSession == Init /\ [][NextSession]_vars

\* IDs updateComponent is called with: of nodes the session creates, and of a
\* node that is not in the store (the configuration panel keeps the component
\* it was opened on).
UpdateIds == {ComponentId(1), ComponentId(2), ComponentId(9)}

\* Partial<ComponentData> of the calls: the position of a drag end, the config
\* of the configuration panel.
UpdateFields ==
  {[position |-> p] : p \in Positions}
    \cup {[config |-> [defined |-> TRUE, n_factors |-> v]] : v \in ConfigInputs}

\* updateComponent(id, updates), also reached through updateComponentConfig.
UpdateComponent(id, updates) ==
  /\ Ready
  /\ components' = updateComponent(components, id, updates)
  /\ storage' = AutoSave(components', connections)
  /\ lastOp' = "updateComponent"
  /\ UNCHANGED << connections, selectedComponent, connectingFrom, zoom, pan,
                  componentCounter, canvasCounter, file, probe, savedGraph,
                  storageFull, pending, attachment >>

\* Updates of nodes on graphs built by drops, a one-block template (whose
\* node shares its ID with the first dropped node) and connections.
NextUpdate ==
  \/ \E t \in PersistTypes : Drop(t, DropPosition)
  \/ \E i \in 1..Len(components) : HandleConnectionPointClick(i)
  \/ HandleLoadWorkflow(<<"data-input">>)
  \/ \E id \in UpdateIds, u \in UpdateFields : UpdateComponent(id, u)

SpecUpdate == Init /\ [][NextUpdate]_vars

\* The edge of the sample graph under an ID that is not {from}-{to}.
RenamedConnections ==
  << [id |-> "edge-1", from |-> "component-1", to |-> "component-2"] >>

\* A graph whose node IDs contain '-': the edge x -> y-z has the ID x-y-z,
\* which is the ID of an edge x-y -> z as well.
DashedComponents ==
  << [id |-> "x", type |-> "data-input", label |-> "Data Source",
      position |-> [x |-> 100, y |-> 100], config |-> NoConfig],
     [id |-> "x-y", type |-> "data-input", label |-> "Data Source",
      position |-> [x |-> 100, y |-> 240], config |-> NoConfig],
     [id |-> "y-z", type |-> "split", label |-> "Train/Test Split",
      position |-> [x |-> 320, y |-> 100], config |-> NoConfig],
     [id |-> "z", type |-> "split", label |-> "Train/Test Split",
      position |-> [x |-> 320, y |-> 240], config |-> NoConfig] >>

DashedConnections == << [id |-> "x-y-z", from |-> "x", to |-> "y-z"] >>

\* Files written outside this application: well-formed documents whose IDs do
\* not follow the conventions of the designer.
ForeignTexts ==
  {Stringify(SampleComponents, RenamedConnections),
   Stringify(DashedComponents, DashedConnections)}

\* Editing graphs that were loaded from such files.
NextForeign ==
  \/ \E t \in DropTypes : Drop(t, DropPosition)
  \/ \E i \in 1..Len(components) : HandleConnectionPointClick(i)
  \/ \E k \in 1..Len(connections) : RemoveConnection(k)
  \/ ClearCanvas
  \/ \E t \in ForeignTexts : LoadFromFile(t)

SpecForeign == Init /\ [][NextForeign]_vars

(***************************************************************************)
(* Zoom and pan of the canvas.  zoom is kept in tenths: 10 is 100%, the     *)
(* step of 0.1 is 1, the limits 0.3 and 3 are 3 and 30.                    *)
(***************************************************************************)
Min(a, b) == IF a < b THEN a ELSE b
Max(a, b) == IF a > b THEN a ELSE b

\* A zoom-in that does not stop at 300%.
zoomInUnclamped(prev) == prev + 1

\* prev => Math.min(prev + 0.1, 3)
zoomIn(prev) == Min(prev + 1, 30)

\* prev => Math.max(prev - 0.1, 0.3)
zoomOut(prev) == Max(prev - 1, 3)

\* Math.max(0.3, Math.min(3, zoom + delta)) with delta = -0.1 for a positive
\* deltaY and 0.1 otherwise.
wheelZoom(current, deltaY) ==
  LET delta == IF deltaY > 0 THEN -1 ELSE 1
  IN  Max(3, Min(30, current + delta))

\* The + button of the toolbar.
HandleZoomIn ==
  /\ Ready
  /\ zoom' = zoomIn(zoom)
  /\ lastOp' = "zoomIn"
  /\ UNCHANGED << components, connections, selectedComponent, connectingFrom,
                  pan, componentCounter, canvasCounter, storage, file, probe,
                  savedGraph, storageFull, pending, attachment >>

\* The - button of the toolbar.
HandleZoomOut ==
  /\ Ready
  /\ zoom' = zoomOut(zoom)
  /\ lastOp' = "zoomOut"
  /\ UNCHANGED << components, connections, selectedComponent, connectingFrom,
                  pan, componentCounter, canvasCounter, storage, file, probe,
                  savedGraph, storageFull, pending, attachment >>

\* The 100% button of the toolbar.
HandleZoomReset ==
  /\ Ready
  /\ zoom' = InitialZoom
  /\ pan' = Origin
  /\ lastOp' = "zoomReset"
  /\ UNCHANGED << components, connections, selectedComponent, connectingFrom,
                  componentCounter, canvasCounter, storage, file, probe,
                  savedGraph, storageFull, pending, attachment >>

\* deltaY of the wheel events: scrolling up, no vertical movement, down.
WheelDeltas == {-100, 0, 100}

\* A mouse wheel event over the canvas.
HandleWheel(deltaY) ==
  /\ Ready
  /\ zoom' = wheelZoom(zoom, deltaY)
  /\ lastOp' = "wheel"
  /\ UNCHANGED << components, connections, selectedComponent, connectingFrom,
                  pan, componentCounter, canvasCounter, storage, file, probe,
                  savedGraph, storageFull, pending, attachment >>

\* Offsets a Shift + drag pans the canvas to.
PanOffsets == {[x |-> 40, y |-> -20], [x |-> -60, y |-> 0]}

\* A mouse move while panning: onPanChange with the offset of the pointer.
HandlePan(offset) ==
  /\ Ready
  /\ pan' = offset
  /\ lastOp' = "pan"
  /\ UNCHANGED << components, connections, selectedComponent, connectingFrom,
                  zoom, componentCounter, canvasCounter, storage, file, probe,
                  savedGraph, storageFull, pending, attachment >>

\* Zooming and panning, with workflow templates loaded in between.
NextZoom ==
  \/ HandleZoomIn
  \/ HandleZoomOut
  \/ HandleZoomReset
  \/ \E d \in WheelDeltas : HandleWheel(d)
  \/ \E o \in PanOffsets : HandlePan(o)
  \/ \E w \in Templates : HandleLoadWorkflow(w)

SpecZoom == Init /\ [][NextZoom]_vars

(***************************************************************************)
(* Properties.                                                             *)
(***************************************************************************)
\* Number of edges of conns whose ID is id.
CountEdgeId(conns, id) == Cardinality({k \in 1..Len(conns) : conns[k].id = id})

\* C1: a connect gesture that calls addConnection(A, B) while an edge with ID
\* A-B exists leaves the edge list unchanged, and exactly one edge with ID A-B
\* exists afterwards.
C1_IdempotentAddConnection ==
  [][\A i \in 1..Len(components) :
       (ConnectGesture(i) /\ lastOp' = "connect:duplicate")
         => /\ connections' = connections
            /\ CountEdgeId(connections', EdgeId(connectingFrom, components[i].id)) = 1
    ]_vars

\* C1 witness: addConnection has just been called for an edge that existed.
C1_Witness ==
  /\ lastOp = "connect:duplicate"
  /\ Len(connections) >= 1

Touches(conn, id) == conn.from = id \/ conn.to = id

\* The edges of conns that touch id at neither end, in their order.
RECURSIVE WithoutTouching(_, _)
WithoutTouching(conns, id) ==
  IF conns = <<>> THEN <<>>
  ELSE IF Touches(Head(conns), id) THEN WithoutTouching(Tail(conns), id)
  ELSE <<Head(conns)>> \o WithoutTouching(Tail(conns), id)

\* C2: after removeComponent(N) no edge with from = N or to = N remains, and
\* the edges that touch N at neither end are kept unchanged, in their order.
C2_CascadeDelete ==
  [][\A i \in 1..Len(components) :
       RemoveComponent(i)
         => LET N == components[i].id
            IN  /\ \A k \in 1..Len(connections') : ~Touches(connections'[k], N)
                /\ connections' = WithoutTouching(connections, N)
    ]_vars

\* C2 witness: a node with edges has just been removed and an edge that did
\* not touch it is still there.
C2_Witness ==
  /\ lastOp = "removeComponent:cascade"
  /\ Len(connections) >= 1

\* C3: loading the file the application saved yields the graph that was saved:
\* the same nodes (ID, type, position, label, config) and the same edges, in
\* the same order.
C3_RoundTrip ==
  lastOp = "loadFromFile"
    => /\ components = savedGraph.components
       /\ connections = savedGraph.connections

\* C4: no edge of the store has from = to.
C4_NoSelfLoops ==
  \A k \in 1..Len(connections) : connections[k].from # connections[k].to

\* The types of the nodes an edge links pass the validator.
EdgeTypesValid(comps, conn) ==
  LET fromComp == FindById(comps, conn.from)
      toComp   == FindById(comps, conn.to)
  IN  /\ fromComp # <<>>
      /\ toComp # <<>>
      /\ isValidConnection(fromComp[1].type, toComp[1].type)

\* C5: every edge the connect gesture or the workflow loader adds links nodes
\* whose types satisfy isValidConnection(sourceType, targetType).
C5_EdgesValidatedAtCreation ==
  [][/\ lastOp' = "connect:added"
          => EdgeTypesValid(components', connections'[Len(connections')])
     /\ lastOp' = "loadWorkflow"
          => \A k \in 1..Len(connections') :
               EdgeTypesValid(components', connections'[k])
    ]_vars

\* C6: all nodes of the store have pairwise distinct IDs.
C6_UniqueNodeIds ==
  \A i \in 1..Len(components), j \in 1..Len(components) :
    components[i].id = components[j].id => i = j

\* C7: isValidConnection('data-source', 'split') is true and
\* isValidConnection('split', 'data-source') is false.
C7_DataSourceToSplit ==
  /\ (probe.fromType = "data-source" /\ probe.toType = "split")
       => probe.result = "true"
  /\ (probe.fromType = "split" /\ probe.toType = "data-source")
       => probe.result = "false"

CatalogEntries ==
  {SIMPLIFIED_COMPONENTS[i] : i \in 1..Len(SIMPLIFIED_COMPONENTS)}

CategoryOf(type) ==
  IF \E c \in CatalogEntries : c.type = type
  THEN (CHOOSE c \in CatalogEntries : c.type = type).category
  ELSE "none"

\* C8: a connection from an output or model block into an input block is
\* rejected.
C8_BackwardsFlowRejected ==
  (CategoryOf(probe.fromType) \in {"output", "model"}
     /\ CategoryOf(probe.toType) = "input")
    => probe.result = "false"

Resolves(type) == getSimplifiedComponent(type) # <<>>

\* C10: a template of 5 blocks whose third block is unresolvable expands to
\* exactly 4 nodes, with an edge from the node of block 2 to the node of
\* block 4.
C10_ChainAroundGap ==
  [][\A w \in LoaderTemplates :
       (/\ Len(w) = 5
        /\ ~Resolves(w[3])
        /\ \A b \in {1, 2, 4, 5} : Resolves(w[b])
        /\ LoaderLoadWorkflow(w))
         => /\ Len(components') = 4
            /\ \E k \in 1..Len(connections') :
                 /\ connections'[k].from = components'[2].id
                 /\ connections'[k].to = components'[3].id
    ]_vars

\* The label the catalog gives a type.
LabelOf(type) == (CHOOSE c \in CatalogEntries : c.type = type).label

\* C11: a template whose n block types all resolve expands to exactly n nodes
\* in template order, the node of index i at x = 100 + (i mod 4) * 220,
\* y = 100 + floor(i / 4) * 140 with the catalog label, and to exactly n - 1
\* edges, the k-th from the node of index k to the node of index k + 1 with
\* the ID {from}-{to}.
C11_GridChain ==
  [][\A w \in LoaderTemplates :
       ((\A b \in 1..Len(w) : Resolves(w[b])) /\ LoaderLoadWorkflow(w))
         => /\ Len(components') = Len(w)
            /\ \A b \in 1..Len(w) :
                 /\ components'[b].type = w[b]
                 /\ components'[b].label = LabelOf(w[b])
                 /\ components'[b].position.x = 100 + ((b - 1) % 4) * 220
                 /\ components'[b].position.y = 100 + ((b - 1) \div 4) * 140
            /\ Len(connections') = Len(w) - 1
            /\ \A k \in 1..(Len(w) - 1) :
                 /\ connections'[k].from = components'[k].id
                 /\ connections'[k].to = components'[k + 1].id
                 /\ connections'[k].id =
                      components'[k].id \o "-" \o components'[k + 1].id
    ]_vars

\* C11 witness: a template of five resolvable blocks has just been expanded,
\* the fifth node opening the second row.
C11_Witness ==
  /\ lastOp = "loadWorkflow"
  /\ Len(components) = 5
  /\ Len(connections) = 4
  /\ components[5].position = [x |-> 100, y |-> 240]

Range(seq) == {seq[i] : i \in 1..Len(seq)}

\* The indices of the blocks of a template that resolve, in their order.
ResolvableIndices(w) ==
  SelectSeq([i \in 1..Len(w) |-> i], LAMBDA i : Resolves(w[i]))

\* C12: a successful file load leaves exactly the nodes and edges of the
\* loaded document in the store, a successful workflow load exactly the nodes
\* and edges of the template (one node per resolvable block, in order, and
\* edges between these nodes only), and no node or edge that existed before
\* and is not part of what was loaded remains.
C12_LoadIsFullReplace ==
  [][/\ \A t \in ExternalTexts :
          (LoadFromFile(t) /\ lastOp' = "loadFromFile")
            => /\ components' = OrEmptyArray(t.components).items
               /\ connections' = OrEmptyArray(t.connections).items
               /\ \A n \in Range(components) \ Range(t.components.items) :
                    n \notin Range(components')
               /\ \A e \in Range(connections) \ Range(t.connections.items) :
                    e \notin Range(connections')
     /\ \A w \in Templates :
          (HandleLoadWorkflow(w) /\ lastOp' = "loadWorkflow")
            => LET idx == ResolvableIndices(w)
               IN  /\ Len(components') = Len(idx)
                   /\ \A j \in 1..Len(idx) :
                        /\ components'[j].type = w[idx[j]]
                        /\ components'[j].id = ComponentId(componentCounter + j)
                   /\ Len(connections') < Len(w)
                   /\ \A e \in Range(connections') :
                        /\ \E n \in Range(components') : n.id = e.from
                        /\ \E n \in Range(components') : n.id = e.to
                        /\ e.id = e.from \o "-" \o e.to
    ]_vars

\* C12 witness: a file of two nodes and one edge has just been loaded in a
\* session that had created two nodes of its own.
C12_Witness ==
  /\ lastOp = "loadFromFile"
  /\ components = SampleComponents
  /\ connections = SampleConnections
  /\ componentCounter + canvasCounter >= 2

\* C13: a file load of unparsable JSON lets no exception escape and leaves the
\* store with the empty graph.
C13_CorruptFileFallsBackToEmpty ==
  [][LoadFromFile(CorruptText)
       => /\ lastOp' \notin FatalErrors
          /\ components' = <<>>
          /\ connections' = <<>>
    ]_vars

\* C14: a mount that finds no item under the key, or an item that fails to
\* parse, raises no error and starts the session with the empty graph.
C14_MountWithoutUsableItem ==
  [][\A item \in {AbsentItem, CorruptText} :
       MountOn(item)
         => /\ lastOp' \notin FatalErrors
            /\ components' = <<>>
            /\ connections' = <<>>
    ]_vars

\* C14 witness: the designer has just mounted on an unparsable item.
C14_Witness ==
  /\ lastOp = "remount:caught"
  /\ components = <<>>
  /\ connections = <<>>

\* C15: restoring a parsed document whose components or connections field is
\* not an array, from a file or on mount, throws nothing and yields the empty
\* list for that field.
C15_NonArrayFieldsDefaultToEmpty ==
  [][\A t \in {x \in ExternalTexts : x.syntax = "object"} :
       (LoadFromFile(t) \/ MountOn(t))
         => /\ lastOp' \notin FatalErrors
            /\ ~IsArray(t.components) => components' = <<>>
            /\ ~IsArray(t.connections) => connections' = <<>>
    ]_vars

\* What a reader of the item under STORAGE_KEY gets as the two lists.
ReadBack(item) ==
  [components  |-> Parse(item).components.items,
   connections |-> Parse(item).connections.items]

\* C16: whenever the designer is ready for the next user action and no
\* storage write has failed, the document stored under the key holds exactly
\* the current node list and edge list.
C16_AutoSaveReadAfterWrite ==
  (~Crashed /\ ~storageFull)
    => /\ storage.syntax = "object"
       /\ ReadBack(storage).components = components
       /\ ReadBack(storage).connections = connections

\* C18: unmounting the designer with graph G in the store and mounting it
\* again yields G in memory and the document of G under the key.
C18_RemountKeepsGraph ==
  [][Remount
       => /\ lastOp' \notin FatalErrors
          /\ components' = components
          /\ connections' = connections
          /\ ReadBack(storage').components = components
          /\ ReadBack(storage').connections = connections
    ]_vars

\* C17: a failing storage write is caught.  No step ends with an uncaught
\* exception; while the writes fail the stored item is left as it was and the
\* handlers change the graph as they do otherwise (a drop adds its node, a
\* connect gesture ends, a clear empties both lists); and once the writes
\* succeed again, every change of the graph is written.
C17_StorageFailureIsCaught ==
  [][/\ lastOp' \notin FatalErrors
     /\ (storageFull /\ storageFull') => storage' = storage
     /\ \A t \in DropTypes :
          Drop(t, DropPosition)
            => /\ Len(components') = Len(components) + 1
               /\ components'[Len(components')].type = t
     /\ ClearCanvas => (components' = <<>> /\ connections' = <<>>)
     /\ \A i \in 1..Len(components) :
          (ConnectGesture(i) /\ lastOp' = "connect:added")
            => Len(connections') = Len(connections) + 1
     /\ (/\ ~storageFull /\ ~storageFull'
         /\ << components', connections' >> # << components, connections >>)
          => /\ ReadBack(storage').components = components'
             /\ ReadBack(storage').connections = connections'
    ]_vars

\* C17 witness: an edge has just been added although the write of the
\* auto-save fails, and the stored item still is the empty document of the
\* mount.
C17_Witness ==
  /\ storageFull
  /\ lastOp = "connect:added"
  /\ Len(connections) = 1
  /\ storage = Stringify(<<>>, <<>>)

\* Every edge of conns has both its ends among comps.
EndsExist(comps, conns) ==
  \A e \in Range(conns) :
    /\ \E n \in Range(comps) : n.id = e.from
    /\ \E n \in Range(comps) : n.id = e.to

SideOf(x, y, p) ==
  IF p = [x |-> x + 188, y |-> y + 59] THEN "right"
  ELSE IF p = [x |-> x + 94, y |-> y + 118] THEN "bottom"
  ELSE IF p = [x |-> x, y |-> y + 59] THEN "left"
  ELSE IF p = [x |-> x + 94, y |-> y] THEN "top"
  ELSE "none"

\* The side the claim's table selects for a direction (dx, dy) between
\* centres, stated through the diagonals |dy| = |dx|: right for angles in
\* [315, 360) and [0, 45), bottom for [45, 135), left for [135, 225), top
\* for [225, 315).
SideByAngle(dx, dy) ==
  LET abs(v) == IF v < 0 THEN -v ELSE v
  IN  IF dx >= 0 /\ abs(dy) <= dx /\ ~(dy = dx /\ dx > 0) THEN "right"
      ELSE IF dy > 0 /\ abs(dx) <= dy /\ dx # -dy THEN "bottom"
      ELSE IF dx < 0 /\ abs(dy) <= -dx /\ dy # dx THEN "left"
      ELSE "top"

\* The side the angle rotated by 180 degrees selects: each sector is 90 degrees
\* wide and half-open, so the rotation moves it on by two sectors.
OppositeSide(side) ==
  IF side = "right" THEN "left"
  ELSE IF side = "left" THEN "right"
  ELSE IF side = "top" THEN "bottom"
  ELSE "top"

\* C20: the source point is the midpoint of the side of the source box that
\* the angle from the source centre to the target centre selects, the target
\* point the midpoint of the side of the target box that the angle rotated by
\* 180 degrees selects; for components at (100, 100) and (300, 100) the
\* points are (288, 159) and (300, 159).
C20_ConnectionPoints ==
  attachment.drawn
    => LET dx == (attachment.to.x + 94) - (attachment.from.x + 94)
           dy == (attachment.to.y + 59) - (attachment.from.y + 59)
       IN  /\ SideOf(attachment.from.x, attachment.from.y, attachment.source)
                = SideByAngle(dx, dy)
           /\ SideOf(attachment.to.x, attachment.to.y, attachment.target)
                = OppositeSide(SideByAngle(dx, dy))
           /\ (attachment.from = [x |-> 100, y |-> 100]
                 /\ attachment.to = [x |-> 300, y |-> 100])
                => /\ attachment.source = [x |-> 288, y |-> 159]
                   /\ attachment.target = [x |-> 300, y |-> 159]

\* C20 witness: the line between components at (100, 100) and (300, 100) has
\* been drawn.
C20_Witness ==
  /\ attachment.drawn
  /\ attachment.from = [x |-> 100, y |-> 100]
  /\ attachment.to = [x |-> 300, y |-> 100]
  /\ attachment.source = [x |-> 288, y |-> 159]

\* C21: a workflow-template load never ends with an exception: unresolvable
\* blocks are skipped and the store holds one node per resolvable block, in
\* template order.
C21_TemplateLoadNeverThrows ==
  [][\A w \in LoaderTemplates :
       LoaderLoadWorkflow(w)
         => LET idx == ResolvableIndices(w)
            IN  /\ lastOp' # "loadWorkflow:TypeError"
                /\ Len(components') = Len(idx)
                /\ \A j \in 1..Len(idx) : components'[j].type = w[idx[j]]
    ]_vars

\* C22: in every state reached by palette drops, connect gestures, node and
\* edge removals, clears and workflow-template loads, the from and the to of
\* every edge are IDs of nodes of the store.
C22_ReferentialIntegrity == EndsExist(components, connections)

\* C22 witness: a node with edges has just been removed from a graph that a
\* template load and the connect gesture built, and an edge is left.
C22_Witness ==
  /\ lastOp = "removeComponent:cascade"
  /\ componentCounter >= 1
  /\ Len(components) >= 2
  /\ Len(connections) >= 1
  /\ EndsExist(components, connections)

\* The catalog lets a block of type toType take the output of a block of type
\* fromType: both types are catalog types and the target accepts what the
\* source produces, or accepts nothing in particular.
CatalogAllows(fromType, toType) ==
  \E f \in CatalogEntries, t \in CatalogEntries :
    /\ f.type = fromType
    /\ t.type = toType
    /\ (f.produces \in Range(t.accepts) \/ t.accepts = <<>>)

\* C23: a connect gesture completed on a node other than the pending source,
\* when the pending source is no node of the store or the validator does not
\* pass the two types, leaves the node list and the edge list unchanged and
\* sets connectingFrom to null.
C23_InvalidConnectionRejected ==
  [][\A i \in 1..Len(components) :
       (/\ ConnectGesture(i)
        /\ connectingFrom # Null
        /\ connectingFrom # components[i].id
        /\ \/ \A n \in Range(components) : n.id # connectingFrom
           \/ \E n \in Range(components) :
                /\ n.id = connectingFrom
                /\ n = components[CHOOSE j \in 1..Len(components) :
                                    /\ components[j].id = connectingFrom
                                    /\ \A h \in 1..(j - 1) :
                                         components[h].id # connectingFrom]
                /\ ~CatalogAllows(n.type, components[i].type))
         => /\ components' = components
            /\ connections' = connections
            /\ connectingFrom' = Null
    ]_vars

\* C23 witness: a connect gesture has just been rejected in a graph that has
\* an edge, which is still there.
C23_Witness ==
  /\ lastOp = "connect:rejected"
  /\ connectingFrom = Null
  /\ Len(connections) >= 1
  /\ Len(components) >= 2

\* C24: every block type of every example workflow is a catalog type, every
\* pair of consecutive blocks passes isValidConnection, and so every edge a
\* load of an example workflow creates links nodes whose types pass it.
C24_ExampleWorkflowsAreValid ==
  [][\A k \in 1..Len(EXAMPLE_WORKFLOWS) :
       LoadExampleWorkflow(k)
         => LET blocks == EXAMPLE_WORKFLOWS[k].blocks
            IN  /\ \A b \in 1..Len(blocks) : Resolves(blocks[b])
                /\ \A b \in 1..(Len(blocks) - 1) :
                     isValidConnection(blocks[b], blocks[b + 1])
                /\ \A e \in 1..Len(connections') :
                     EdgeTypesValid(components', connections'[e])
    ]_vars

\* C25: the zoom factor stays between 0.3 and 3 (in tenths, 3 and 30) through
\* zoom-in, zoom-out, wheel, reset and workflow-load steps; a zoom-in at 3 and
\* a zoom-out at 0.3 leave it unchanged; a reset sets zoom to 1 and pan to
\* (0, 0).
C25_ZoomStaysInRange ==
  [][/\ 3 <= zoom /\ zoom <= 30
     /\ 3 <= zoom' /\ zoom' <= 30
     /\ (HandleZoomIn /\ zoom = 30) => zoom' = 30
     /\ (HandleZoomOut /\ zoom = 3) => zoom' = 3
     /\ HandleZoomReset => (zoom' = 10 /\ pan' = [x |-> 0, y |-> 0])
    ]_vars

\* C25 witness: the canvas is at 300% after a zoom-in, panned away from the
\* origin.
C25_Witness ==
  /\ lastOp = "zoomIn"
  /\ zoom = 30
  /\ pan # [x |-> 0, y |-> 0]

\* C26: selectedComponent is null or the ID of a node of the store in every
\* state: after the removal of the selected node, a clear, a workflow-template
\* load and a file load as well.
C26_SelectionNeverDangles ==
  \/ selectedComponent = Null
  \/ \E n \in Range(components) : n.id = selectedComponent

\* C27: updateComponent(id, fields) sets the given fields of every node whose
\* ID is id and leaves their other fields, every other node, the number and
\* order of the nodes and the edge list as they were; when no node has the ID
\* the store is unchanged.
C27_UpdateComponentFrame ==
  [][\A id \in UpdateIds, u \in UpdateFields :
       UpdateComponent(id, u)
         => /\ Len(components') = Len(components)
            /\ connections' = connections
            /\ \A k \in 1..Len(components) :
                 IF components[k].id = id
                 THEN /\ DOMAIN components'[k] = DOMAIN components[k]
                      /\ \A f \in DOMAIN components[k] :
                           components'[k][f] =
                             IF f \in DOMAIN u THEN u[f] ELSE components[k][f]
                 ELSE components'[k] = components[k]
            /\ (\A n \in Range(components) : n.id # id)
                 => components' = components
    ]_vars

\* C27 witness: an update has just moved the first of two linked nodes and
\* left the second where the drop put it.
C27_Witness ==
  /\ lastOp = "updateComponent"
  /\ Len(components) = 2
  /\ Len(connections) >= 1
  /\ components[1].id # components[2].id
  /\ components[1].position = [x |-> 300, y |-> 120]
  /\ components[2].position = DropPosition

\* C28: no two edges of the store have the same (from, to) pair, also after a
\* document with other edge IDs or with '-' in its node IDs was loaded, and
\* addConnection(from, to) leaves the edge list as it is only when an edge
\* with that (from, to) pair exists.
C28_UniqueEdgePairs ==
  [][/\ \A j \in 1..Len(connections'), k \in 1..Len(connections') :
          (/\ connections'[j].from = connections'[k].from
           /\ connections'[j].to = connections'[k].to) => j = k
     /\ \A i \in 1..Len(components) :
          (ConnectGesture(i) /\ lastOp' = "connect:duplicate")
            => \E e \in Range(connections) :
                 e.from = connectingFrom /\ e.to = components[i].id
    ]_vars

\* The handlers that replace the whole canvas.
ReplacingOps ==
  {"clearCanvas", "loadWorkflow", "loadWorkflow:TypeError", "loadFromFile"}

\* C29: a connection source that was pending when the canvas was cleared or
\* replaced by a file or a workflow template is the source of no edge: the
\* click on a connection point that follows the replacement adds none.
C29_PendingSourceDiesWithItsNode ==
  [][\A i \in 1..Len(components) :
       (/\ lastOp \in ReplacingOps
        /\ connectingFrom # Null
        /\ ConnectGesture(i))
         => /\ lastOp' # "connect:added"
            /\ connections' = connections
    ]_vars

\* p lies on the outline of the 188 x 118 box whose top left corner is (x, y).
OnBoundingBox(x, y, p) ==
  /\ x <= p.x /\ p.x <= x + 188
  /\ y <= p.y /\ p.y <= y + 118
  /\ (p.x = x \/ p.x = x + 188 \/ p.y = y \/ p.y = y + 118)

\* C30: for an edge between nodes at any two positions, coincident ones
\* included, the side of the source point and the side of the target point
\* are opposite sides (right/left or bottom/top), and each point lies on the
\* bounding box of its own node.
C30_OppositeSidesOnOwnBox ==
  attachment.drawn
    => LET sourceSide == SideOf(attachment.from.x, attachment.from.y,
                                attachment.source)
           targetSide == SideOf(attachment.to.x, attachment.to.y,
                                attachment.target)
       IN  /\ << sourceSide, targetSide >> \in
                {<<"right", "left">>, <<"left", "right">>,
                 <<"bottom", "top">>, <<"top", "bottom">>}
           /\ OnBoundingBox(attachment.from.x, attachment.from.y,
                            attachment.source)
           /\ OnBoundingBox(attachment.to.x, attachment.to.y,
                            attachment.target)

\* C30 witness: the line of an edge between two nodes at the same position
\* has been drawn, from the right side of the one to the left side of the
\* other.
C30_Witness ==
  /\ attachment.drawn
  /\ attachment.from = attachment.to
  /\ attachment.source.x = attachment.from.x + 188
  /\ attachment.target.x = attachment.to.x

====
